---- MODULE Spec2Model ----
(***************************************************************************)
(* Device Lifecycle Dashboard (src/dashboard.py).                          *)
(*                                                                         *)
(* The program is a Streamlit script: every user interaction re-executes   *)
(* the whole script (the module-level session initialisation followed by   *)
(* main()).  What survives between two executions is                       *)
(*   - st.session_state (selected_category, selected_brand,                *)
(*     duration_range), and                                                *)
(*   - the values the framework keeps for the widgets that were rendered.  *)
(* One action of the model is one user interaction together with the       *)
(* script execution(s) it triggers (the Clear button forces a second       *)
(* execution through st.rerun()).                                          *)
(*                                                                         *)
(* Durations and dates are integers (the slider's step is one unit);       *)
(* strings are ordered by the *Order sequences below, which list each      *)
(* universe in Python's string order.  The End Date and Reason columns     *)
(* and the derived year columns are not modelled: nothing that is checked  *)
(* here reads them.                                                        *)
(***************************************************************************)
EXTENDS Integers, Sequences, FiniteSets, TLC

VARIABLES
    source,        \* lifecycledata.xlsx: [exists, rows]
    keyIdentity,   \* the installed framework identifies a keyed widget by its key alone
    ss,            \* st.session_state: a function from the keys present to their values
    widgets,       \* framework-held widget values: key -> [param, val]
    out,           \* what the last script execution put on the page
    trigger,       \* the interaction that caused the last execution
    arg            \* the option the user chose in that interaction ("" if none)

vars == <<source, keyIdentity, ss, widgets, out, trigger, arg>>

----------------------------------------------------------------------------
(* Bounds *)

MaxRows == 2        \* rows in a spreadsheet of the dashboard specification
MaxDur == 3         \* largest Duration value
MaxStart == 2       \* largest Start Date value
MaxFilterLen == 2   \* rows in a spreadsheet of the filter specification
MaxSortLen == 3     \* rows in a spreadsheet of the sort specification

----------------------------------------------------------------------------
(* Values *)

None == "None"      \* Python None in a string-valued session key
NoRange == <<>>     \* Python None in duration_range

BrandOrder == <<"Acme", "Bolt">>
CategoryOrder == <<"Phone", "Tablet">>
NameOrder == <<"Alpha", "Beta">>

Range(s) == {s[i] : i \in 1..Len(s)}

Row(n, b, c, st, d) ==
    [Name |-> n, Brand |-> b, Category |-> c, Start |-> st, Duration |-> d]

\* the spreadsheet as stored: every row carries a leading unnamed index column
Sheet(rows) ==
    [exists |-> TRUE,
     rows |-> [i \in 1..Len(rows) |-> rows[i] @@ ("Unnamed" :> (i - 1))]]

NoSheet == [exists |-> FALSE, rows |-> <<>>]

SeqsUpTo(S, n) == UNION {[1..k -> S] : k \in 0..n}

SampleRows ==
    { Row("Beta", "Acme", "Phone", 2, 1),
      Row("Alpha", "Bolt", "Tablet", 1, 3),
      Row("Alpha", "Acme", "Tablet", 2, 2) }

Min(S) == CHOOSE x \in S : \A y \in S : x <= y
Max(S) == CHOOSE x \in S : \A y \in S : x >= y

Durations(rows) == {rows[i].Duration : i \in 1..Len(rows)}

\* spreadsheets the dashboard is run on: distinct devices with at least two
\* distinct durations, so that the slider of line 218 has min_value < max_value
DashboardSheets ==
    {rows \in SeqsUpTo(SampleRows, MaxRows) :
        /\ Len(rows) > 0
        /\ \A i, j \in 1..Len(rows) : i # j => rows[i] # rows[j]
        /\ Min(Durations(rows)) < Max(Durations(rows))}

----------------------------------------------------------------------------
(* load_data *)

\* a faulty load_data: sample rows are made up when the file is not found
load_data_fallback(src) ==
    IF src.exists
        THEN [ok |-> TRUE,
              rows |-> [i \in 1..Len(src.rows) |->
                          [f \in DOMAIN src.rows[i] \ {"Unnamed"} |-> src.rows[i][f]]],
              error |-> FALSE]
        ELSE [ok |-> TRUE,
              rows |-> <<Row("Alpha", "Acme", "Phone", 1, 1),
                         Row("Beta", "Bolt", "Tablet", 2, 2)>>,
              error |-> TRUE]

\* read_excel, then drop the first column; None and an error message when
\* the file is not found
load_data(src) ==
    IF src.exists
        THEN [ok |-> TRUE,
              rows |-> [i \in 1..Len(src.rows) |->
                          [f \in DOMAIN src.rows[i] \ {"Unnamed"} |-> src.rows[i][f]]],
              error |-> FALSE]
        ELSE [ok |-> FALSE, rows |-> <<>>, error |-> TRUE]

----------------------------------------------------------------------------
(* Session state *)

\* lines 94-99: each key is created only when it is not in the session yet
SessionInit(s) ==
    LET s1 == IF "selected_category" \in DOMAIN s
                THEN s ELSE s @@ ("selected_category" :> None)
        s2 == IF "selected_brand" \in DOMAIN s1
                THEN s1 ELSE s1 @@ ("selected_brand" :> "All Brands")
    IN  IF "duration_range" \in DOMAIN s2
          THEN s2 ELSE s2 @@ ("duration_range" :> NoRange)

min_duration(rows) == Min(Durations(rows))
max_duration(rows) == Max(Durations(rows))

FullRange(rows) == <<min_duration(rows), max_duration(rows)>>

\* a faulty DurationInit: the range starts as (min, min)
DurationInitCollapsed(s, rows) ==
    IF s.duration_range = NoRange
        THEN [s EXCEPT !.duration_range = <<min_duration(rows), min_duration(rows)>>]
        ELSE s

\* lines 145-146
DurationInit(s, rows) ==
    IF s.duration_range = NoRange
        THEN [s EXCEPT !.duration_range = FullRange(rows)]
        ELSE s

\* what the Clear button assigns (lines 229-231); also the state of a session
\* after its first execution
DefaultState(rows) ==
    [selected_category |-> None,
     selected_brand |-> "All Brands",
     duration_range |-> FullRange(rows)]

----------------------------------------------------------------------------
(* Sidebar controls *)

\* sorted(unique values), by the universe's string order
SortedList(order, present) == SelectSeq(order, LAMBDA v : v \in present)

all_brands(rows) ==
    <<"All Brands">> \o SortedList(BrandOrder, {rows[i].Brand : i \in 1..Len(rows)})

all_categories(rows) ==
    <<"All Categories">> \o
        SortedList(CategoryOrder, {rows[i].Category : i \in 1..Len(rows)})

\* list.index, 0-based
index(options, v) == (CHOOSE i \in 1..Len(options) : options[i] = v) - 1

\* line 189
brand_index(s, rows) ==
    IF s.selected_brand \in Range(all_brands(rows))
        THEN index(all_brands(rows), s.selected_brand)
        ELSE 0

\* lines 197-202
default_category_index(s, rows) ==
    IF s.selected_category # None
       /\ s.selected_category \in {rows[i].Category : i \in 1..Len(rows)}
        THEN index(all_categories(rows), s.selected_category)
        ELSE 0

\* A widget call.  param is the argument that preselects a value (index= of
\* a selectbox, value= of the slider) and dflt the value it preselects.  The
\* framework hands back the value it holds for the widget when the widget is
\* the one it rendered before, and the preselected value for a new widget.
\* Which widget is "the same" depends on the installed framework, which the
\* repository does not pin: by key alone (keyIdentity), or by key and
\* arguments, so that a changed param makes a new widget.
widget(w, key, param, dflt) ==
    IF key \in DOMAIN w /\ (keyIdentity \/ w[key].param = param)
        THEN [param |-> param, val |-> w[key].val]
        ELSE [param |-> param, val |-> dflt]

\* a faulty BrandWriteBack: a new brand also clears the category
BrandWriteBackResetsCategory(s, selected_brand) ==
    IF selected_brand # s.selected_brand
        THEN [s EXCEPT !.selected_brand = selected_brand, !.selected_category = None]
        ELSE s

\* line 192
BrandWriteBack(s, selected_brand) ==
    [s EXCEPT !.selected_brand = selected_brand]

\* line 225
DurationWriteBack(s, duration_range) ==
    [s EXCEPT !.duration_range = duration_range]

\* lines 211-214; no statement of the program sets _from_treemap, so the
\* hasattr test of line 213 is always false
CategoryWriteBack(s, selected_category) ==
    IF selected_category # "All Categories"
        THEN [s EXCEPT !.selected_category = selected_category]
        ELSE [s EXCEPT !.selected_category = None]

\* a faulty slider: bounds one unit too wide and no lo <= hi
SliderRangesUnbounded(lo, hi) ==
    {<<a, b>> : a \in (lo - 1)..(hi + 1), b \in (lo - 1)..(hi + 1)}

\* the ranges the slider of lines 218-224 lets the user pick
SliderRanges(lo, hi) ==
    {r \in (lo..hi) \X (lo..hi) : r[1] <= r[2]}

----------------------------------------------------------------------------
(* Filter *)

\* a faulty ApplyFilters: the duration bounds are exclusive
ApplyFiltersStrict(rows, s) ==
    LET f1 == IF s.selected_brand # "All Brands"
                THEN SelectSeq(rows, LAMBDA r : r.Brand = s.selected_brand)
                ELSE rows
        f2 == IF s.selected_category # None /\ s.selected_category # "All Categories"
                THEN SelectSeq(f1, LAMBDA r : r.Category = s.selected_category)
                ELSE f1
    IN  SelectSeq(f2, LAMBDA r : r.Duration > s.duration_range[1]
                                  /\ r.Duration < s.duration_range[2])

\* lines 235-243
ApplyFilters(rows, s) ==
    LET f1 == IF s.selected_brand # "All Brands"
                THEN SelectSeq(rows, LAMBDA r : r.Brand = s.selected_brand)
                ELSE rows
        f2 == IF s.selected_category # None /\ s.selected_category # "All Categories"
                THEN SelectSeq(f1, LAMBDA r : r.Category = s.selected_category)
                ELSE f1
    IN  SelectSeq(f2, LAMBDA r : r.Duration >= s.duration_range[1]
                                  /\ r.Duration <= s.duration_range[2])

----------------------------------------------------------------------------
(* Device details *)

sort_options ==
    <<"Device Name", "Duration (Shortest First)", "Duration (Longest First)",
      "Start Date (Newest First)", "Start Date (Oldest First)">>

NameRank(n) == CHOOSE i \in 1..Len(NameOrder) : NameOrder[i] = n

column(r, by) ==
    CASE by = "Duration" -> r.Duration
      [] by = "Start Date" -> r.Start
      [] OTHER -> NameRank(r.Name)

Orderings(n) ==
    {p \in [1..n -> 1..n] : \A i, j \in 1..n : i # j => p[i] # p[j]}

\* DataFrame.sort_values: the default sort is not stable, so every ordering
\* of the rows that is monotone in the column is a possible result
sort_values(view, by, ascending) ==
    LET n == Len(view)
        ok(p) == \A i \in 1..(n - 1) :
                    IF ascending
                        THEN column(view[p[i]], by) <= column(view[p[i + 1]], by)
                        ELSE column(view[p[i]], by) >= column(view[p[i + 1]], by)
    IN  {[i \in 1..n |-> view[p[i]]] : p \in {q \in Orderings(n) : ok(q)}}

\* a faulty display_df: every key sorts ascending
display_df_ascending(view, sort_by) ==
    CASE sort_by = "Duration (Longest First)" -> sort_values(view, "Duration", TRUE)
      [] sort_by = "Start Date (Newest First)" -> sort_values(view, "Start Date", TRUE)
      [] sort_by = "Start Date (Oldest First)" -> sort_values(view, "Start Date", TRUE)
      [] sort_by = "Duration (Shortest First)" -> sort_values(view, "Duration", TRUE)
      [] OTHER -> sort_values(view, "Device Name", TRUE)

\* lines 390-399
display_df(view, sort_by) ==
    CASE sort_by = "Duration (Longest First)" -> sort_values(view, "Duration", FALSE)
      [] sort_by = "Start Date (Newest First)" -> sort_values(view, "Start Date", FALSE)
      [] sort_by = "Start Date (Oldest First)" -> sort_values(view, "Start Date", TRUE)
      [] sort_by = "Duration (Shortest First)" -> sort_values(view, "Duration", TRUE)
      [] OTHER -> sort_values(view, "Device Name", TRUE)

----------------------------------------------------------------------------
(* One execution of the script *)

Blank ==
    [error |-> FALSE, controls |-> FALSE, catAtRender |-> "", catShown |-> "",
     filterRan |-> FALSE, filtered |-> <<>>, reasonsChart |-> FALSE,
     warning |-> FALSE, metrics |-> <<>>, timeline |-> FALSE, cards |-> <<>>]

\* lines 279-311: len, sum of durations (the mean is sum / count), nunique
Metrics(view) ==
    [count |-> Len(view),
     brands |-> Cardinality({view[i].Brand : i \in 1..Len(view)}),
     categories |-> Cardinality({view[i].Category : i \in 1..Len(view)}),
     meanTimesCount |->
        LET S[k \in 0..Len(view)] == IF k = 0 THEN 0 ELSE S[k - 1] + view[k].Duration
        IN  S[Len(view)]]

\* The stages of main() hand on a context: the session state, the widget
\* values the browser sent (sent), the widget values of the widgets rendered
\* so far (widgets), the page so far (out), whether st.rerun() was called
\* and the orders the detail cards can come in.
Context(s, w, rows) ==
    [ss |-> s, sent |-> w, rows |-> rows, widgets |-> <<>>, out |-> Blank,
     rerun |-> FALSE, orders |-> {<<>>}]

\* lines 185-192
brand_control(x) ==
    LET b == widget(x.sent, "brand_selectbox", brand_index(x.ss, x.rows),
                    all_brands(x.rows)[brand_index(x.ss, x.rows) + 1])
    IN  [x EXCEPT !.ss = BrandWriteBack(@, b.val),
                  !.widgets = @ @@ ("brand_selectbox" :> b),
                  !.out.controls = TRUE]

\* lines 195-214
category_control(x) ==
    LET c == widget(x.sent, "category_selectbox",
                    default_category_index(x.ss, x.rows),
                    all_categories(x.rows)[default_category_index(x.ss, x.rows) + 1])
    IN  [x EXCEPT !.ss = CategoryWriteBack(@, c.val),
                  !.widgets = @ @@ ("category_selectbox" :> c),
                  !.out.catAtRender = x.ss.selected_category,
                  !.out.catShown = c.val]

\* lines 217-225
duration_control(x) ==
    LET d == widget(x.sent, "duration_slider",
                    x.ss.duration_range, x.ss.duration_range)
    IN  [x EXCEPT !.ss = DurationWriteBack(@, d.val),
                  !.widgets = @ @@ ("duration_slider" :> d)]

\* lines 228-232: clicked tells whether the Clear button caused this execution
clear_button(x, clicked) ==
    IF clicked
        THEN [x EXCEPT !.ss = DefaultState(x.rows), !.rerun = TRUE]
        ELSE x

\* lines 235-272: the filter, then the sidebar chart of the reasons
filter_stage(x) ==
    IF x.rerun
        THEN x
        ELSE [x EXCEPT !.out.filterRan = TRUE,
                       !.out.filtered = ApplyFilters(x.rows, x.ss),
                       !.out.reasonsChart = TRUE]

\* lines 275-402: the warning, or the metrics, the timeline and the cards
content_stage(x) ==
    LET sort_by == widget(x.sent, "sort_by", 0, sort_options[1])
    IN  IF x.rerun
          THEN x
          ELSE IF Len(x.out.filtered) = 0
            THEN [x EXCEPT !.out.warning = TRUE]
            ELSE [x EXCEPT !.out.metrics = <<Metrics(x.out.filtered)>>,
                           !.out.timeline = TRUE,
                           !.widgets = @ @@ ("sort_by" :> sort_by),
                           !.orders = display_df(x.out.filtered, sort_by.val)]

\* lines 140-142
load_stage(s, w, data) ==
    IF ~data.ok
        THEN [Context(s, w, <<>>) EXCEPT !.out.error = data.error]
        ELSE [Context(DurationInit(s, data.rows), w, data.rows)
                 EXCEPT !.out.error = data.error]

\* The script from line 94 to the end of main(), started with session state
\* s_in and the widget values w_in.  The values of widgets an execution
\* does not render are dropped.
main(s_in, w_in, clicked) ==
    IF ~load_data(source).ok
        THEN load_stage(SessionInit(s_in), w_in, load_data(source))
        ELSE content_stage(filter_stage(clear_button(
                duration_control(category_control(brand_control(
                    load_stage(SessionInit(s_in), w_in, load_data(source))))),
                clicked)))

\* st.rerun() (line 232) forces a second execution, in which the button
\* reads False
forced_rerun(r) ==
    IF r.rerun THEN main(r.ss, r.widgets, FALSE) ELSE r

Execute(s_in, w_in, clicked) == forced_rerun(main(s_in, w_in, clicked))

----------------------------------------------------------------------------
(* The dashboard: a session, from the first page load on *)

df == load_data(source)

Init ==
    /\ source \in {NoSheet} \cup {Sheet(rows) : rows \in DashboardSheets}
    /\ keyIdentity \in BOOLEAN
    /\ ss = <<>>
    /\ widgets = <<>>
    /\ out = Blank
    /\ trigger = "none"
    /\ arg = ""

\* the script runs on session state s_in and widget values w_in and the
\* browser shows the result
Show(r, trig, a) ==
    \E cards \in r.orders :
        /\ ss' = r.ss
        /\ widgets' = r.widgets
        /\ out' = [r.out EXCEPT !.cards = cards]
        /\ trigger' = trig
        /\ arg' = a
        /\ UNCHANGED <<source, keyIdentity>>

Step(s_in, w_in, clicked, trig, a) ==
    Show(Execute(s_in, w_in, clicked), trig, a)

\* the browser stores the user's choice in the widget it is showing
Choose(key, v) == [widgets EXCEPT ![key].val = v]

\* the first execution of a session
PageLoad ==
    /\ trigger = "none"
    /\ Step(ss, widgets, FALSE, "load", "")

\* an execution that no widget change caused (the framework's Rerun command)
Rerun ==
    /\ trigger # "none"
    /\ Step(ss, widgets, FALSE, "rerun", "")

\* the user picks another option of "Select Brand" (lines 186-191)
ChangeBrand ==
    /\ out.controls
    /\ \E b \in Range(all_brands(df.rows)) \ {widgets["brand_selectbox"].val} :
            Step(ss, Choose("brand_selectbox", b), FALSE, "brand", b)

\* the user picks another option of "Select Device Category" (lines 204-209)
ChangeCategory ==
    /\ out.controls
    /\ \E c \in Range(all_categories(df.rows)) \ {widgets["category_selectbox"].val} :
            Step(ss, Choose("category_selectbox", c), FALSE, "category", c)

\* the user moves the duration slider (lines 218-224)
ChangeDuration ==
    /\ out.controls
    /\ \E r \in SliderRanges(min_duration(df.rows), max_duration(df.rows))
                    \ {widgets["duration_slider"].val} :
            Step(ss, Choose("duration_slider", r), FALSE, "slider", "")

\* the user picks another option of "Sort by:" (line 388)
ChangeSort ==
    /\ "sort_by" \in DOMAIN widgets
    /\ \E k \in Range(sort_options) \ {widgets["sort_by"].val} :
            Step(ss, Choose("sort_by", k), FALSE, "sort", k)

\* the user presses "Clear All Filters" (lines 228-232)
ClearAll ==
    /\ out.controls
    /\ Step(ss, widgets, TRUE, "clear", "")

Next ==
    \/ PageLoad
    \/ Rerun
    \/ ChangeBrand
    \/ ChangeCategory
    \/ ChangeDuration
    \/ ChangeSort
    \/ ClearAll

Spec == Init /\ [][Next]_vars

----------------------------------------------------------------------------
(* The dashboard with the chart selection of the design *)

\* the user clicks the segment of category c in a chart of the filtered
\* devices: selected_category becomes c and the script runs again
SelectFromChart ==
    /\ out.timeline
    /\ \E c \in {out.filtered[i].Category : i \in 1..Len(out.filtered)} :
            Step([ss EXCEPT !.selected_category = c], widgets, FALSE, "chart", c)

NextChart ==
    \/ Next
    \/ SelectFromChart

SpecChart == Init /\ [][NextChart]_vars

----------------------------------------------------------------------------
(* The filter on its own: every spreadsheet and every selection *)

FilterRows ==
    {Row(NameOrder[1], b, c, 1, d) :
        b \in Range(BrandOrder), c \in Range(CategoryOrder), d \in 1..MaxDur}

Selections ==
    [selected_category : {None} \cup Range(CategoryOrder),
     selected_brand : {"All Brands"} \cup Range(BrandOrder),
     duration_range : SliderRanges(1, MaxDur)]

InitFilter ==
    /\ source \in {Sheet(rows) : rows \in SeqsUpTo(FilterRows, MaxFilterLen)}
    /\ keyIdentity = FALSE
    /\ ss \in Selections
    /\ widgets = <<>>
    /\ out = Blank
    /\ trigger = "none"
    /\ arg = ""

\* lines 235-243 applied to the loaded spreadsheet and the selection
Filter ==
    /\ trigger = "none"
    /\ out' = filter_stage(Context(ss, widgets, df.rows)).out
    /\ trigger' = "filter"
    /\ UNCHANGED <<source, keyIdentity, ss, widgets, arg>>

NextFilter == Filter

SpecFilter == InitFilter /\ [][NextFilter]_vars

----------------------------------------------------------------------------
(* The detail list on its own: every spreadsheet and every sort key *)

\* devices that differ from the first device in at most one of the three
\* sort columns
SortRows ==
    {r \in {Row(n, BrandOrder[1], CategoryOrder[1], st, d) :
                n \in Range(NameOrder), st \in 1..MaxStart, d \in 1..MaxDur} :
        Cardinality({c \in {"Name", "Start", "Duration"} :
                        r[c] # Row(NameOrder[1], "", "", 1, 1)[c]}) <= 1}

InitSort ==
    /\ source \in {Sheet(rows) : rows \in SeqsUpTo(SortRows, MaxSortLen)}
    /\ keyIdentity = FALSE
    /\ ss = [selected_category |-> None, selected_brand |-> "All Brands",
             duration_range |-> <<1, MaxDur>>]
    /\ widgets = <<>>
    /\ out = Blank
    /\ trigger = "none"
    /\ arg = ""

\* lines 235-243 and 388-399 with the sort key k chosen in "Sort by:"
SortDetails ==
    /\ trigger = "none"
    /\ Len(df.rows) > 0
    /\ \E k \in Range(sort_options) :
         Show(content_stage(filter_stage(
                [Context(ss, "sort_by" :> [param |-> 0, val |-> k], df.rows)
                    EXCEPT !.out.controls = TRUE])),
              "sort", k)

NextSort == SortDetails

SpecSort == InitSort /\ [][NextSort]_vars

----------------------------------------------------------------------------
(* Properties *)

Shown(category) == IF category = None THEN "All Categories" ELSE category
Unshown(option) == IF option = "All Categories" THEN None ELSE option

\* C1: once the execution caused by "Clear All Filters", and the execution it
\* forces, have completed, the session state is exactly the default state:
\* brand 'All Brands', category None, duration range (min, max) of the data.
C1_ClearAllResets ==
    trigger = "clear" => ss = DefaultState(df.rows)

\* C2: after a chart selection of category c, the category dropdown of the
\* following execution shows c and selected_category is still c when that
\* execution ends.
C2_ChartSelectionShown ==
    trigger = "chart" => out.catShown = arg /\ ss.selected_category = arg

\* C3: in every execution that renders the sidebar, selected_category at the
\* end agrees with the option the category dropdown shows, and, unless the
\* user has just changed the dropdown itself, the option shown is the one
\* derived from selected_category as it was when the dropdown was rendered.
C3_DropdownFromState ==
    out.controls =>
        /\ ss.selected_category = Unshown(out.catShown)
        /\ trigger # "category" => out.catShown = Shown(out.catAtRender)

\* C4: a brand change leaves selected_category and duration_range as they
\* were, a category change (dropdown or chart) leaves selected_brand and
\* duration_range, a slider change leaves selected_brand and
\* selected_category, a sort change or a plain rerun leaves all three; only
\* the Clear button (and the first page load) changes more than one field.
C4_MutatorsFrame ==
    [][ LET same(k) == ss'[k] = ss[k]
        IN  /\ trigger' = "brand" =>
                same("selected_category") /\ same("duration_range")
            /\ trigger' \in {"category", "chart"} =>
                same("selected_brand") /\ same("duration_range")
            /\ trigger' = "slider" =>
                same("selected_brand") /\ same("selected_category")
            /\ trigger' \in {"sort", "rerun"} /\ out.controls =>
                same("selected_brand") /\ same("selected_category")
                    /\ same("duration_range")
      ]_vars

C4_BrandChangedOthersKept ==
    /\ trigger = "brand"
    /\ ss.selected_brand = arg
    /\ ss.selected_category # None
    /\ ss.duration_range # FullRange(df.rows)

Matches(r, s) ==
    /\ s.selected_brand = "All Brands" \/ r.Brand = s.selected_brand
    /\ s.selected_category = None \/ r.Category = s.selected_category
    /\ s.duration_range[1] <= r.Duration
    /\ r.Duration <= s.duration_range[2]

\* view consists of the rows of rows at the positions pos, in their order
Picks(view, rows, pos) ==
    /\ Len(view) = Cardinality(pos)
    /\ \A i \in 1..Len(view) :
         \E j \in pos :
            /\ Cardinality({k \in pos : k <= j}) = i
            /\ view[i] = rows[j]

\* C6: the filtered view consists of exactly the rows of the dataset that
\* satisfy the brand, category and duration predicates together, each once
\* and in the dataset's order.
C6_FilterSoundComplete ==
    out.filterRan =>
        Picks(out.filtered, df.rows,
              {j \in 1..Len(df.rows) : Matches(df.rows[j], ss)})

C6_SomeKeptSomeDropped ==
    /\ out.filterRan
    /\ Len(out.filtered) > 0
    /\ Len(out.filtered) < Len(df.rows)
    /\ ss.selected_brand # "All Brands"
    /\ ss.selected_category # None

\* C7: the first execution of a session leaves the default state, and with
\* it the filtered view is the whole dataset in its order.
C7_DefaultIsIdentity ==
    (trigger = "load" /\ source.exists) =>
        /\ ss = DefaultState(df.rows)
        /\ out.filterRan
        /\ out.filtered = df.rows

C7_FirstRunShowsAll ==
    /\ trigger = "load"
    /\ source.exists
    /\ Len(out.filtered) = Len(df.rows)
    /\ Len(df.rows) >= 2

\* C8: when the filter matches no row, the execution shows the notice and
\* renders nothing against the empty view: no reasons chart, no metrics, no
\* timeline, no cards.
C8_EmptyViewNotRendered ==
    (out.filterRan /\ Len(out.filtered) = 0) =>
        /\ out.warning
        /\ ~out.reasonsChart
        /\ out.metrics = <<>>
        /\ ~out.timeline
        /\ out.cards = <<>>

Count(seq, r) == Cardinality({i \in 1..Len(seq) : seq[i] = r})

Ordered(cards, sort_by) ==
    \A i, j \in 1..Len(cards) :
        i < j =>
            CASE sort_by = "Duration (Longest First)" ->
                    cards[i].Duration >= cards[j].Duration
              [] sort_by = "Duration (Shortest First)" ->
                    cards[i].Duration <= cards[j].Duration
              [] sort_by = "Start Date (Newest First)" ->
                    cards[i].Start >= cards[j].Start
              [] sort_by = "Start Date (Oldest First)" ->
                    cards[i].Start <= cards[j].Start
              [] OTHER -> NameRank(cards[i].Name) <= NameRank(cards[j].Name)

\* C10: the detail cards are the rows of the filtered view, none dropped and
\* none duplicated, in the order of the chosen sort key: duration
\* non-increasing or non-decreasing, start date non-increasing or
\* non-decreasing, or name non-decreasing.
C10_CardsSorted ==
    "sort_by" \in DOMAIN widgets =>
        /\ Len(out.cards) = Len(out.filtered)
        /\ \A r \in Range(out.filtered) \cup Range(out.cards) :
                Count(out.cards, r) = Count(out.filtered, r)
        /\ Ordered(out.cards, widgets["sort_by"].val)

C10_LongestFirstReorders ==
    /\ "sort_by" \in DOMAIN widgets
    /\ widgets["sort_by"].val = "Duration (Longest First)"
    /\ Len(out.cards) = 3
    /\ out.filtered[1].Duration < out.filtered[3].Duration
    /\ out.filtered[3].Duration < out.filtered[2].Duration
    /\ out.cards = <<out.filtered[2], out.filtered[3], out.filtered[1]>>

====
